---- MODULE Spec2Model ----
(***************************************************************************)
(* A model of aiohttp_json_api's schema registry (registry.py) and of the  *)
(* attribute fields (fields/attributes.py).                                *)
(*                                                                         *)
(* Python values are records of one shape, so that any two of them can be  *)
(* compared: tag is the name of the value's class, n an integer payload    *)
(* (the value of an int, the identity of a plain object), s the characters *)
(* of a str (or the name of a class), items the elements of a sequence and *)
(* map the entries of a dict (a function from keys to values).             *)
(***************************************************************************)
EXTENDS Integers, Sequences, FiniteSets, TLC

VARIABLES registry, field, call, outcome

vars == <<registry, field, call, outcome>>

-----------------------------------------------------------------------------
(* Bounds of the model *)

\* longest tuple handed to ensure_identifier
MaxSeqLen == 2
\* most entries the two dictionaries of a registry hold together
MaxEntries == 2
\* largest numerator and denominator handed to a Fraction field
MaxNumber == 2

-----------------------------------------------------------------------------
(* Python values *)

V(tag, n, s, items, map) ==
    [tag |-> tag, n |-> n, s |-> s, items |-> items, map |-> map]

PyNone == V("NoneType", 0, <<>>, <<>>, <<>>)
PyInt(n) == V("int", n, <<>>, <<>>, <<>>)
PyStr(chars) == V("str", 0, chars, <<>>, <<>>)
PyTuple(items) == V("tuple", 0, <<>>, items, <<>>)
PyList(items) == V("list", 0, <<>>, items, <<>>)
PyDict(map) == V("dict", 0, <<>>, <<>>, map)
\* a class object; every class is an instance of "type"
PyClass(name) == V("type", 0, <<name>>, <<>>, <<>>)
\* a plain object: the n-th instance of class cls
PyObject(cls, n) == V(cls, n, <<>>, <<>>, <<>>)

\* type(obj)
Type(obj) == PyClass(obj.tag)

\* bool(obj): None, 0 and empty containers are false; a plain object, such as
\* a schema, defines neither __bool__ nor __len__ and is true
Truthy(obj) ==
    CASE obj.tag = "NoneType" -> FALSE
      [] obj.tag = "int" -> obj.n # 0
      [] obj.tag = "str" -> obj.s # <<>>
      [] obj.tag \in {"tuple", "list", "ResourceID"} -> obj.items # <<>>
      [] obj.tag = "dict" -> DOMAIN obj.map # {}
      [] OTHER -> TRUE

\* a or b
Or(a, b) == IF Truthy(a) THEN a ELSE b

\* d.get(key) of a dict d (a function from keys to values)
DictGet(d, key) == IF key \in DOMAIN d THEN d[key] ELSE PyNone

\* the outcome of a call: a returned value or a raised exception
Return(value) == [kind |-> "return", value |-> value, exc |-> ""]
Raise(exc) == [kind |-> "raise", value |-> PyNone, exc |-> exc]

\* the decimal digits of a natural number, as str() writes them
Digit(d) == <<"0", "1", "2", "3", "4", "5", "6", "7", "8", "9">>[d + 1]

RECURSIVE Digits(_)
Digits(n) == IF n < 10 THEN <<Digit(n)>> ELSE Digits(n \div 10) \o <<Digit(n % 10)>>

\* str(obj) of an int, a str or None
Str(obj) ==
    CASE obj.tag = "str" -> obj
      [] obj.tag = "int" ->
            PyStr(IF obj.n < 0 THEN <<"-">> \o Digits(-obj.n) ELSE Digits(obj.n))
      [] OTHER -> PyStr(<<"N", "o", "n", "e">>)

\* isinstance(obj, collections.Sequence): str, tuple, list and named tuples
IsSequence(obj) == obj.tag \in {"str", "tuple", "list", "ResourceID"}

\* isinstance(obj, collections.Mapping)
IsMapping(obj) == obj.tag = "dict"

\* the elements of a sequence: those of a str are its one-character strings
Elements(obj) ==
    IF obj.tag = "str" THEN [i \in 1..Len(obj.s) |-> PyStr(<<obj.s[i]>>)] ELSE obj.items

-----------------------------------------------------------------------------
(* registry.py *)

ARG_DEFAULT == V("Symbol", 0, <<"ARG_DEFAULT">>, <<>>, <<>>)

\* ResourceID(type, id), a named tuple
ResourceID(type, id) == V("ResourceID", 0, <<>>, <<type, id>>, <<>>)

KeyType == PyStr(<<"t", "y", "p", "e">>)
KeyId == PyStr(<<"i", "d">>)

\* ResourceID._asdict()
AsDict(rid) == PyDict((KeyType :> rid.items[1]) @@ (KeyId :> rid.items[2]))

\* a schema object: a plain object of class Schema
Schema(n) == PyObject("Schema", n)

\* schema.type, the typename the schema serves
SchemaType(schema) ==
    IF schema.n = 1 THEN PyStr(<<"a", "b">>) ELSE PyStr(<<"c", "d">>)

\* schema._get_id(obj): the id the schema reads from the resource
SchemaGetId(schema, obj) == PyStr(Digits(10 * schema.n + obj.n))

\* get_schema taking None, not ARG_DEFAULT, for the missing default
get_schema_none_sentinel(self, obj, default) ==
    LET schema == Or(Or(DictGet(self.schema_by_resource, Type(obj)),
                        DictGet(self.schema_by_resource, obj)),
                     DictGet(self.schema_by_type, obj))
    IN  IF schema # PyNone THEN Return(schema)
        ELSE IF default # PyNone THEN Return(default)
        ELSE Raise("KeyError")

\* get_schema without the lookup under type(obj)
get_schema_no_type_lookup(self, obj, default) ==
    LET schema == Or(DictGet(self.schema_by_resource, obj),
                     DictGet(self.schema_by_type, obj))
    IN  IF schema # PyNone THEN Return(schema)
        ELSE IF default # ARG_DEFAULT THEN Return(default)
        ELSE Raise("KeyError")

\* get_schema looking obj up before type(obj)
get_schema_reordered(self, obj, default) ==
    LET schema == Or(Or(DictGet(self.schema_by_resource, obj),
                        DictGet(self.schema_by_resource, Type(obj))),
                     DictGet(self.schema_by_type, obj))
    IN  IF schema # PyNone THEN Return(schema)
        ELSE IF default # ARG_DEFAULT THEN Return(default)
        ELSE Raise("KeyError")

\* Registry.get_schema(obj, default)
get_schema(self, obj, default) ==
    LET schema == Or(Or(DictGet(self.schema_by_resource, Type(obj)),
                        DictGet(self.schema_by_resource, obj)),
                     DictGet(self.schema_by_type, obj))
    IN  IF schema # PyNone THEN Return(schema)
        ELSE IF default # ARG_DEFAULT THEN Return(default)
        ELSE Raise("KeyError")

\* the last line of ensure_identifier
Finish(result, asdict) ==
    Return(IF asdict /\ Truthy(result) THEN AsDict(result) ELSE result)

\* ensure_identifier reading a mapping's members without str()
ensure_identifier_no_str(self, obj, asdict) ==
    IF IsSequence(obj)
    THEN IF Len(Elements(obj)) # 2
         THEN Raise("AssertionError")
         ELSE Finish(ResourceID(Str(Elements(obj)[1]), Str(Elements(obj)[2])), asdict)
    ELSE IF IsMapping(obj)
    THEN IF KeyType \notin DOMAIN obj.map \/ KeyId \notin DOMAIN obj.map
         THEN Raise("KeyError")
         ELSE Finish(ResourceID(obj.map[KeyType], obj.map[KeyId]), asdict)
    ELSE LET found == get_schema(self, obj, ARG_DEFAULT)
         IN  IF found.kind = "raise"
             THEN found
             ELSE Finish(ResourceID(SchemaType(found.value),
                                    SchemaGetId(found.value, obj)), asdict)

\* ensure_identifier without the assertion on the length of a sequence
ensure_identifier_no_assert(self, obj, asdict) ==
    IF IsSequence(obj)
    THEN IF Len(Elements(obj)) < 2
         THEN Raise("IndexError")
         ELSE Finish(ResourceID(Str(Elements(obj)[1]), Str(Elements(obj)[2])), asdict)
    ELSE IF IsMapping(obj)
    THEN IF KeyType \notin DOMAIN obj.map \/ KeyId \notin DOMAIN obj.map
         THEN Raise("KeyError")
         ELSE Finish(ResourceID(Str(obj.map[KeyType]), Str(obj.map[KeyId])), asdict)
    ELSE LET found == get_schema(self, obj, ARG_DEFAULT)
         IN  IF found.kind = "raise"
             THEN found
             ELSE Finish(ResourceID(SchemaType(found.value),
                                    SchemaGetId(found.value, obj)), asdict)

\* ensure_identifier asking get_schema for None when no schema is registered
ensure_identifier_none_default(self, obj, asdict) ==
    IF IsSequence(obj)
    THEN IF Len(Elements(obj)) # 2
         THEN Raise("AssertionError")
         ELSE Finish(ResourceID(Str(Elements(obj)[1]), Str(Elements(obj)[2])), asdict)
    ELSE IF IsMapping(obj)
    THEN IF KeyType \notin DOMAIN obj.map \/ KeyId \notin DOMAIN obj.map
         THEN Raise("KeyError")
         ELSE Finish(ResourceID(Str(obj.map[KeyType]), Str(obj.map[KeyId])), asdict)
    ELSE LET found == get_schema(self, obj, PyNone)
         IN  IF found.value = PyNone
             THEN Raise("AttributeError")
             ELSE Finish(ResourceID(SchemaType(found.value),
                                    SchemaGetId(found.value, obj)), asdict)

\* Registry.ensure_identifier(obj, asdict)
ensure_identifier(self, obj, asdict) ==
    IF IsSequence(obj)
    THEN IF Len(Elements(obj)) # 2
         THEN Raise("AssertionError")
         ELSE Finish(ResourceID(Str(Elements(obj)[1]), Str(Elements(obj)[2])), asdict)
    ELSE IF IsMapping(obj)
    THEN IF KeyType \notin DOMAIN obj.map \/ KeyId \notin DOMAIN obj.map
         THEN Raise("KeyError")
         ELSE Finish(ResourceID(Str(obj.map[KeyType]), Str(obj.map[KeyId])), asdict)
    ELSE LET found == get_schema(self, obj, ARG_DEFAULT)
         IN  IF found.kind = "raise"
             THEN found
             ELSE Finish(ResourceID(SchemaType(found.value),
                                    SchemaGetId(found.value, obj)), asdict)

-----------------------------------------------------------------------------
(* The validators of the trafaret library, as the fields compose them: a   *)
(* base check, narrowed by "& Enum(...)" and widened by "| Null()".        *)

Trafaret(base, allow_blank, min_length, max_length, elem) ==
    [base |-> base, allow_blank |-> allow_blank, min_length |-> min_length,
     max_length |-> max_length, elem |-> elem, enum |-> PyNone, null |-> FALSE]

\* trafaret & t.Enum(*variants)
AndEnum(trafaret, variants) == [trafaret EXCEPT !.enum = PyTuple(variants)]

\* trafaret | t.Null()
OrNull(trafaret) == [trafaret EXCEPT !.null = TRUE]

\* the length limits of t.String and t.List
LengthOk(trafaret, length) ==
    /\ trafaret.min_length = PyNone \/ length >= trafaret.min_length.n
    /\ trafaret.max_length = PyNone \/ length <= trafaret.max_length.n

\* t.String(...).check(data)
CheckString(trafaret, data) ==
    IF data.tag # "str" THEN Raise("DataError")
    ELSE IF ~trafaret.allow_blank /\ Len(data.s) = 0 THEN Raise("DataError")
    ELSE IF ~LengthOk(trafaret, Len(data.s)) THEN Raise("DataError")
    ELSE Return(data)

\* trafaret.check(data): the value, or DataError
RECURSIVE Check(_, _)
Check(trafaret, data) ==
    LET base ==
            IF trafaret.base = "String" THEN CheckString(trafaret, data)
            ELSE IF data.tag # "list" \/ ~LengthOk(trafaret, Len(data.items))
                 THEN Raise("DataError")
            ELSE IF \E i \in 1..Len(data.items) :
                        Check(trafaret.elem, data.items[i]).kind = "raise"
                 THEN Raise("DataError")
            ELSE Return(PyList([i \in 1..Len(data.items) |->
                                    Check(trafaret.elem, data.items[i]).value]))
        narrowed ==
            IF base.kind = "return" /\ trafaret.enum # PyNone
                 /\ \A i \in 1..Len(trafaret.enum.items) : trafaret.enum.items[i] # base.value
            THEN Raise("DataError")
            ELSE base
    IN  IF narrowed.kind = "raise" /\ trafaret.null /\ data = PyNone
        THEN Return(PyNone)
        ELSE narrowed

-----------------------------------------------------------------------------
(* fields/attributes.py *)

\* what Attribute.__init__ leaves in a field before the subclass configures it
Attribute(cls, allow_none) ==
    [cls |-> cls, allow_none |-> allow_none, trafaret |-> PyNone, choices |-> PyNone,
     min |-> PyNone, max |-> PyNone, version |-> PyNone, field |-> PyNone]

\* an Enum class with its member names, and its i-th member
EnumClass(name, names) == V("EnumMeta", 0, <<name>>, names, <<>>)
EnumMember(enum, i) == V(enum.s[1], i, enum.items[i].s, <<>>, <<>>)

\* isinstance(x, type(Enum))
IsEnumClass(x) == x.tag = "EnumMeta"

\* name in enum.__members__
IsMemberName(enum, name) == \E i \in 1..Len(enum.items) : enum.items[i] = name

\* helpers.is_collection(x): a collection that is not a string
is_collection(x) == x.tag \in {"tuple", "list", "EnumMeta"}

\* String.__init__ (regex is left at None)
StringField(allow_blank, choices, min_length, max_length, allow_none) ==
    LET base == Trafaret("String", allow_blank, min_length, max_length, PyNone)
        chosen ==
            IF choices # PyNone /\ is_collection(choices)
            THEN AndEnum(base, choices.items)
            ELSE base
    IN  [Attribute("String", allow_none) EXCEPT
            !.choices = IF choices # PyNone /\ is_collection(choices) /\ IsEnumClass(choices)
                        THEN choices ELSE PyNone,
            !.trafaret = IF allow_none THEN OrNull(chosen) ELSE chosen]

\* String.pre_validate(data, sp); the detail text of the error is left out
String_pre_validate(self, data) ==
    IF Check(self.trafaret, data).kind = "raise"
    THEN Raise("InvalidValue")
    ELSE Return(PyNone)

\* String.deserialize(data, sp)
String_deserialize(self, data) ==
    IF IsEnumClass(self.choices) /\ IsMemberName(self.choices, data)
    THEN Return(EnumMember(self.choices,
                           CHOOSE i \in 1..Len(self.choices.items) : self.choices.items[i] = data))
    ELSE Return(data)

KeyName == PyStr(<<"n", "a", "m", "e">>)

\* String.serialize(data): data.name of an Enum class is its member called
\* "name", if it has one
String_serialize(self, data) ==
    IF IsEnumClass(data)
    THEN IF IsMemberName(data, KeyName)
         THEN Check(self.trafaret,
                    EnumMember(data, CHOOSE i \in 1..Len(data.items) : data.items[i] = KeyName))
         ELSE Raise("AttributeError")
    ELSE Check(self.trafaret, data)

\* Fraction.__init__
FractionField(min, max, allow_none) ==
    [Attribute("Fraction", allow_none) EXCEPT !.min = min, !.max = max]

KeyNumerator == PyStr(<<"n", "u", "m", "e", "r", "a", "t", "o", "r">>)
KeyDenominator == PyStr(<<"d", "e", "n", "o", "m", "i", "n", "a", "t", "o", "r">>)

\* isinstance(x, int)
IsInt(x) == x.tag = "int"

\* bound > n / d and bound < n / d, for d # 0
Above(bound, n, d) == IF d > 0 THEN bound * d > n ELSE bound * d < n
Below(bound, n, d) == IF d > 0 THEN bound * d < n ELSE bound * d > n

\* Fraction.pre_validate(data, sp)
Fraction_pre_validate(self, data) ==
    IF data.tag # "dict" THEN Raise("InvalidType")
    ELSE IF KeyNumerator \notin DOMAIN data.map THEN Raise("InvalidValue")
    ELSE IF KeyDenominator \notin DOMAIN data.map THEN Raise("InvalidValue")
    ELSE IF ~IsInt(data.map[KeyNumerator]) THEN Raise("InvalidValue")
    ELSE IF ~IsInt(data.map[KeyDenominator]) THEN Raise("InvalidValue")
    ELSE IF data.map[KeyDenominator].n = 0 THEN Raise("InvalidValue")
    ELSE IF self.min # PyNone
              /\ Above(self.min.n, data.map[KeyNumerator].n, data.map[KeyDenominator].n)
         THEN Raise("InvalidValue")
    ELSE IF self.max # PyNone
              /\ Below(self.max.n, data.map[KeyNumerator].n, data.map[KeyDenominator].n)
         THEN Raise("InvalidValue")
    ELSE Return(PyNone)

Abs(n) == IF n < 0 THEN -n ELSE n

RECURSIVE Gcd(_, _)
Gcd(a, b) == IF b = 0 THEN a ELSE Gcd(b, a % b)

\* a fractions.Fraction in lowest terms with a positive denominator
PyFraction(n, d) == V("Fraction", 0, <<>>, <<PyInt(n), PyInt(d)>>, <<>>)

\* fractions.Fraction(n, d) of two ints
MakeFraction(n, d) ==
    IF d = 0 THEN Raise("ZeroDivisionError")
    ELSE LET g == Gcd(Abs(n), Abs(d))
             sign == IF d < 0 THEN -1 ELSE 1
         IN  Return(PyFraction(sign * (n \div g), Abs(d) \div g))

\* data[index] for an int index counted from 0
Subscript(data, index) ==
    IF data.tag = "dict"
    THEN IF PyInt(index) \in DOMAIN data.map
         THEN Return(data.map[PyInt(index)])
         ELSE Raise("KeyError")
    ELSE IF IsSequence(data)
    THEN IF index < Len(Elements(data))
         THEN Return(Elements(data)[index + 1])
         ELSE Raise("IndexError")
    ELSE Raise("TypeError")

DigitValue(c) == CHOOSE d \in 0..9 : Digit(d) = c

RECURSIVE Number(_)
Number(chars) ==
    IF chars = <<>> THEN 0
    ELSE 10 * Number(SubSeq(chars, 1, Len(chars) - 1)) + DigitValue(chars[Len(chars)])

IsDigits(chars) ==
    chars # <<>> /\ \A i \in 1..Len(chars) : \E d \in 0..9 : Digit(d) = chars[i]

\* int(x) of an int, a str of decimal digits with an optional sign, or anything else
ToInt(x) ==
    IF IsInt(x) THEN Return(PyInt(x.n))
    ELSE IF x.tag # "str" THEN Raise("TypeError")
    ELSE IF IsDigits(x.s) THEN Return(PyInt(Number(x.s)))
    ELSE IF Len(x.s) > 1 /\ x.s[1] \in {"-", "+"} /\ IsDigits(Tail(x.s))
         THEN Return(PyInt((IF x.s[1] = "-" THEN -1 ELSE 1) * Number(Tail(x.s))))
    ELSE Raise("ValueError")

\* int(data[index])
IntAt(data, index) ==
    IF Subscript(data, index).kind = "raise"
    THEN Subscript(data, index)
    ELSE ToInt(Subscript(data, index).value)

\* Fraction.deserialize(data, sp)
Fraction_deserialize(self, data) ==
    IF IntAt(data, 0).kind = "raise" THEN IntAt(data, 0)
    ELSE IF IntAt(data, 1).kind = "raise" THEN IntAt(data, 1)
    ELSE MakeFraction(IntAt(data, 0).value.n, IntAt(data, 1).value.n)

\* Fraction.serialize(data): ints too have a numerator and a denominator
Fraction_serialize(self, data) ==
    IF data.tag = "Fraction"
    THEN Return(PyDict((KeyNumerator :> data.items[1]) @@ (KeyDenominator :> data.items[2])))
    ELSE IF IsInt(data)
    THEN Return(PyDict((KeyNumerator :> PyInt(data.n)) @@ (KeyDenominator :> PyInt(1))))
    ELSE Raise("AttributeError")

\* UUID.__init__
UUIDField(version, allow_none) ==
    [Attribute("UUID", allow_none) EXCEPT !.version = version]

HexDigits == {"0", "1", "2", "3", "4", "5", "6", "7", "8", "9", "a", "b", "c", "d", "e", "f"}

\* uuid.UUID(hex=text) of a str: the hyphens are dropped and 32 hexadecimal
\* digits must remain (lower case here)
ParseUUID(text) ==
    LET digits == SelectSeq(text.s, LAMBDA c : c # "-")
    IN  IF Len(digits) = 32 /\ \A i \in 1..32 : digits[i] \in HexDigits
        THEN Return(V("UUID", 0, digits, <<>>, <<>>))
        ELSE Raise("ValueError")

\* UUID.version: the version digit of an RFC 4122 UUID, else None
UUIDVersion(u) ==
    IF u.s[17] \in {"8", "9", "a", "b"} /\ u.s[13] \in {"1", "2", "3", "4", "5"}
    THEN PyInt(DigitValue(u.s[13]))
    ELSE PyNone

\* UUID.pre_validate(data, sp)
UUID_pre_validate(self, data) ==
    IF self.allow_none /\ data = PyNone THEN Return(PyNone)
    ELSE IF data.tag # "str" THEN Raise("InvalidType")
    ELSE IF ParseUUID(data).kind = "raise" THEN Raise("InvalidValue")
    ELSE IF self.version # PyNone /\ self.version # UUIDVersion(ParseUUID(data).value)
         THEN Raise("InvalidValue")
    ELSE Return(PyNone)

\* UUID.deserialize(data, sp)
UUID_deserialize(self, data) ==
    IF self.allow_none /\ data = PyNone THEN Return(PyNone)
    ELSE IF data.tag # "str" THEN Raise("AttributeError")
    ELSE ParseUUID(data)

\* UUID.serialize(data)
UUID_serialize(self, data) ==
    IF self.allow_none /\ data = PyNone THEN Return(PyNone)
    ELSE IF data.tag = "UUID" THEN Return(PyStr(data.s))
    ELSE Raise("AttributeError")

\* List.__init__
ListField(elem, min_length, max_length, allow_none) ==
    LET base == Trafaret("List", FALSE, min_length, max_length, elem.trafaret)
    IN  [Attribute("List", allow_none) EXCEPT
            !.field = elem,
            !.trafaret = IF allow_none THEN OrNull(base) ELSE base]

\* List.pre_validate(data, sp)
List_pre_validate(self, data) ==
    IF Check(self.trafaret, data).kind = "raise"
    THEN Raise("InvalidValue")
    ELSE Return(PyNone)

\* the number of items iterating over data yields, or -1 if it is not iterable
IterLength(data) ==
    IF IsSequence(data) THEN Len(Elements(data))
    ELSE IF data.tag = "dict" THEN Cardinality(DOMAIN data.map)
    ELSE -1

\* the list comprehension of List.deserialize and List.serialize: its body
\* reads the name "schema", which nothing binds
Comprehension(data) ==
    IF IterLength(data) < 0 THEN Raise("TypeError")
    ELSE IF IterLength(data) = 0 THEN Return(PyList(<<>>))
    ELSE Raise("NameError")

\* List.deserialize(data, sp)
List_deserialize(self, data) ==
    IF self.allow_none /\ data = PyNone THEN Return(PyNone) ELSE Comprehension(data)

\* List.serialize(data)
List_serialize(self, data) ==
    IF self.allow_none /\ data = PyNone THEN Return(PyNone) ELSE Comprehension(data)

\* field.pre_validate(data, sp), by the class of the field
pre_validate(self, data) ==
    CASE self.cls = "String" -> String_pre_validate(self, data)
      [] self.cls = "Fraction" -> Fraction_pre_validate(self, data)
      [] self.cls = "UUID" -> UUID_pre_validate(self, data)
      [] self.cls = "List" -> List_pre_validate(self, data)

\* field.deserialize(data, sp)
deserialize(self, data) ==
    CASE self.cls = "String" -> String_deserialize(self, data)
      [] self.cls = "Fraction" -> Fraction_deserialize(self, data)
      [] self.cls = "UUID" -> UUID_deserialize(self, data)
      [] self.cls = "List" -> List_deserialize(self, data)

\* field.serialize(data)
serialize(self, data) ==
    CASE self.cls = "String" -> String_serialize(self, data)
      [] self.cls = "Fraction" -> Fraction_serialize(self, data)
      [] self.cls = "UUID" -> UUID_serialize(self, data)
      [] self.cls = "List" -> List_serialize(self, data)

-----------------------------------------------------------------------------
(* The values the model calls the registry with *)

TypeName == PyStr(<<"a", "b">>)
ResourceClass == PyClass("Article")
Resource == PyObject("Article", 1)
Stranger == PyObject("Comment", 2)

Schemas == {Schema(1), Schema(2)}

\* keys a schema can be registered under: the dictionaries take any hashable key
ResourceKeys == {ResourceClass, Resource, TypeName, PyClass("str"), PyClass("type")}
TypeKeys == {TypeName, Resource}

Dicts(keys, values) == UNION {[dom -> values] : dom \in SUBSET keys}

Registries ==
    {r \in [schema_by_type : Dicts(TypeKeys, Schemas),
            schema_by_resource : Dicts(ResourceKeys, Schemas)] :
        Cardinality(DOMAIN r.schema_by_type)
          + Cardinality(DOMAIN r.schema_by_resource) <= MaxEntries}

Atoms == {PyInt(42), PyStr(<<"4", "2">>)}

RECURSIVE SeqsUpTo(_, _)
SeqsUpTo(S, n) ==
    IF n = 0 THEN {<<>>}
    ELSE LET shorter == SeqsUpTo(S, n - 1)
         IN  shorter \cup {Append(q, a) : q \in {p \in shorter : Len(p) = n - 1}, a \in S}

KeyMeta == PyStr(<<"m", "e", "t", "a">>)

SequenceInputs ==
    {PyTuple(q) : q \in SeqsUpTo(Atoms, MaxSeqLen)}
      \cup {PyList(<<PyStr(<<"a", "b">>), PyInt(7)>>), PyList(<<PyInt(7)>>),
            PyList(<<PyStr(<<"a", "b">>), PyInt(7), PyNone>>)}
      \cup {PyStr(<<>>), PyStr(<<"a">>), TypeName, PyStr(<<"a", "b", "c">>)}

MappingInputs ==
    LET members == Dicts({KeyType, KeyId}, Atoms)
    IN  {PyDict(m) : m \in members} \cup {PyDict(m @@ (KeyMeta :> PyNone)) : m \in members}

\* resource classes and resource objects: hashable, as dict.get needs them
ObjectInputs == {ResourceClass, Resource, Stranger}

Defaults == {ARG_DEFAULT, PyNone, Schema(2)}

EmptyRegistry == [schema_by_type |-> <<>>, schema_by_resource |-> <<>>]

(* The fields the model builds and the data it hands them *)

Color == EnumClass("Color", <<PyStr(<<"r">>), PyStr(<<"g">>)>>)

PlainString == StringField(FALSE, PyNone, PyNone, PyNone, FALSE)

StringFields ==
    {PlainString,
     StringField(TRUE, PyNone, PyNone, PyNone, TRUE),
     StringField(FALSE, PyNone, PyInt(1), PyInt(2), FALSE),
     StringField(FALSE, PyTuple(<<PyStr(<<"r">>), PyStr(<<"a", "b">>)>>), PyNone, PyNone, FALSE),
     StringField(FALSE, Color, PyNone, PyNone, TRUE)}

Limits == {PyNone, PyInt(0), PyInt(1)}

\* Fraction.__init__ asserts min <= max when both are given
FractionFields ==
    {FractionField(b[1], b[2], FALSE) :
        b \in {c \in Limits \X Limits : c[1] = PyNone \/ c[2] = PyNone \/ c[1].n <= c[2].n}}

UUID4 == <<"1", "2", "3", "4", "5", "6", "7", "8", "-", "1", "2", "3", "4", "-",
           "4", "6", "7", "8", "-", "9", "2", "3", "4", "-",
           "5", "6", "7", "8", "1", "2", "3", "4", "5", "6", "7", "8">>
UUID1 == <<"a", "b", "c", "d", "e", "f", "0", "0", "1", "2", "3", "4",
           "1", "6", "7", "8", "a", "2", "3", "4",
           "5", "6", "7", "8", "1", "2", "3", "4", "5", "6", "7", "8">>

UUIDFields == {UUIDField(PyNone, FALSE), UUIDField(PyInt(4), FALSE), UUIDField(PyInt(4), TRUE)}

ListFields ==
    {ListField(PlainString, PyInt(0), PyNone, FALSE),
     ListField(PlainString, PyInt(1), PyInt(2), TRUE)}

Fields == StringFields \cup FractionFields \cup UUIDFields \cup ListFields

StringData ==
    {PyNone, PyInt(1), PyStr(<<>>), PyStr(<<"r">>), PyStr(<<"a", "b">>),
     PyStr(<<"a", "b", "c">>), Color, EnumMember(Color, 1)}

Numbers == {PyInt(n) : n \in -MaxNumber..MaxNumber}

FractionObjects ==
    {PyDict(m) : m \in Dicts({KeyNumerator, KeyDenominator}, Numbers \cup {PyStr(<<"1">>)})}
      \cup {PyDict(m @@ (PyInt(0) :> PyInt(1)) @@ (PyInt(1) :> d)) :
                m \in [{KeyNumerator, KeyDenominator} -> {PyInt(1), PyInt(2)}],
                d \in {PyInt(0), PyInt(2)}}

Fractions ==
    {MakeFraction(n, d).value : n \in -MaxNumber..MaxNumber, d \in 1..MaxNumber}

FractionData ==
    FractionObjects \cup Fractions
      \cup {PyNone, PyInt(2), PyStr(<<"1", "2">>), PyStr(<<"1">>),
            PyList(<<PyInt(1), PyInt(2)>>), PyList(<<PyStr(<<"-", "1">>), PyInt(0)>>),
            PyList(<<PyStr(<<"x">>), PyInt(2)>>), PyList(<<PyNone, PyInt(2)>>)}

UUIDData ==
    {PyNone, PyInt(4), PyStr(UUID4), PyStr(UUID1), PyStr(<<"x", "y">>),
     ParseUUID(PyStr(UUID4)).value}

ListData ==
    {PyNone, PyInt(1), PyStr(<<"a">>), PyList(<<>>), PyTuple(<<>>), PyDict(<<>>),
     PyList(<<PyStr(<<"a">>)>>), PyList(<<PyStr(<<"a">>), PyStr(<<>>)>>),
     PyList(<<PyStr(<<"a">>), PyStr(<<"b">>), PyStr(<<"c">>)>>), PyList(<<PyInt(1)>>)}

DataFor(self) ==
    CASE self.cls = "String" -> StringData
      [] self.cls = "Fraction" -> FractionData
      [] self.cls = "UUID" -> UUIDData
      [] self.cls = "List" -> ListData

-----------------------------------------------------------------------------
(* The state machine: a registry and a field, each built by its            *)
(* constructor, and a caller that calls their methods in any order; call   *)
(* and outcome record the last call and what it returned or raised.  The   *)
(* registry and the field share nothing, so the initial states vary one of *)
(* them at a time.                                                         *)

Call(op, obj, default, asdict) ==
    [op |-> op, obj |-> obj, default |-> default, asdict |-> asdict]

GetSchemaCall(obj, default) == Call("get_schema", obj, default, FALSE)

EnsureIdentifierCall(obj, asdict) == Call("ensure_identifier", obj, ARG_DEFAULT, asdict)

FieldCall(op, data) == Call(op, data, ARG_DEFAULT, FALSE)

NoCall == Call("none", PyNone, ARG_DEFAULT, FALSE)

Init ==
    /\ \/ registry \in Registries /\ field = PlainString
       \/ registry = EmptyRegistry /\ field \in Fields
    /\ call = NoCall
    /\ outcome = Return(PyNone)

\* get_schema remembering in schema_by_type what it returned
GetSchemaCaching ==
    \E obj \in {TypeName} \cup ObjectInputs, default \in Defaults :
        /\ call' = GetSchemaCall(obj, default)
        /\ outcome' = get_schema(registry, obj, default)
        /\ registry' = IF outcome'.kind = "return"
                       THEN [registry EXCEPT !.schema_by_type = (obj :> outcome'.value) @@ @]
                       ELSE registry
        /\ UNCHANGED field

GetSchema ==
    \E obj \in {TypeName} \cup ObjectInputs, default \in Defaults :
        /\ call' = GetSchemaCall(obj, default)
        /\ outcome' = get_schema(registry, obj, default)
        /\ UNCHANGED <<registry, field>>

EnsureIdentifier ==
    \E obj \in SequenceInputs \cup MappingInputs \cup ObjectInputs, asdict \in BOOLEAN :
        /\ call' = EnsureIdentifierCall(obj, asdict)
        /\ outcome' = ensure_identifier(registry, obj, asdict)
        /\ UNCHANGED <<registry, field>>

PreValidate ==
    \E data \in DataFor(field) :
        /\ call' = FieldCall("pre_validate", data)
        /\ outcome' = pre_validate(field, data)
        /\ UNCHANGED <<registry, field>>

Deserialize ==
    \E data \in DataFor(field) :
        /\ call' = FieldCall("deserialize", data)
        /\ outcome' = deserialize(field, data)
        /\ UNCHANGED <<registry, field>>

Serialize ==
    \E data \in DataFor(field) :
        /\ call' = FieldCall("serialize", data)
        /\ outcome' = serialize(field, data)
        /\ UNCHANGED <<registry, field>>

Next == GetSchema \/ EnsureIdentifier \/ PreValidate \/ Deserialize \/ Serialize

Spec == Init /\ [][Next]_vars

-----------------------------------------------------------------------------
(* Properties of Registry.get_schema *)

by_resource == registry.schema_by_resource
by_type == registry.schema_by_type

\* none of the three lookups has an entry for obj
NoEntry(obj) ==
    /\ Type(obj) \notin DOMAIN by_resource
    /\ obj \notin DOMAIN by_resource
    /\ obj \notin DOMAIN by_type

\* the entry of the first lookup, in the order of the code, that has one
FirstEntry(obj) ==
    IF Type(obj) \in DOMAIN by_resource THEN by_resource[Type(obj)]
    ELSE IF obj \in DOMAIN by_resource THEN by_resource[obj]
    ELSE by_type[obj]

\* C1: when no lookup finds a schema for obj, get_schema returns the default
\* if one was passed (None included) and raises KeyError, returning nothing,
\* if none was passed.
C1_DefaultOrKeyError ==
    (call.op = "get_schema" /\ NoEntry(call.obj)) =>
        IF call.default # ARG_DEFAULT
        THEN outcome = Return(call.default)
        ELSE outcome = Raise("KeyError")

C1_Witness ==
    /\ call.op = "get_schema"
    /\ NoEntry(call.obj)
    /\ call.default = PyNone
    /\ outcome = Return(PyNone)

\* C2 as stated: a schema registered under a typename, or under a class, is
\* what get_schema returns for that typename, for that class and for every
\* instance of that class, whatever the default.
C2_RegisteredIsReturned ==
    call.op = "get_schema" =>
        /\ (call.obj.tag = "str" /\ call.obj \in DOMAIN by_type)
              => outcome = Return(by_type[call.obj])
        /\ (call.obj.tag = "type" /\ call.obj \in DOMAIN by_resource)
              => outcome = Return(by_resource[call.obj])
        /\ (Type(call.obj) \in DOMAIN by_resource)
              => outcome = Return(by_resource[Type(call.obj)])

\* C2 as amended: the schema registered under typename T is returned for T
\* when schema_by_resource has no entry under type(T) or under T; the schema
\* registered under class R is returned for R when schema_by_resource has no
\* entry under type(R), and for every instance of R; whatever the default.
C2_RegisteredIsReturnedUnlessShadowed ==
    call.op = "get_schema" =>
        /\ (/\ call.obj.tag = "str"
            /\ call.obj \in DOMAIN by_type
            /\ Type(call.obj) \notin DOMAIN by_resource
            /\ call.obj \notin DOMAIN by_resource)
              => outcome = Return(by_type[call.obj])
        /\ (/\ call.obj.tag = "type"
            /\ call.obj \in DOMAIN by_resource
            /\ Type(call.obj) \notin DOMAIN by_resource)
              => outcome = Return(by_resource[call.obj])
        /\ (Type(call.obj) \in DOMAIN by_resource)
              => outcome = Return(by_resource[Type(call.obj)])

C2_Witness ==
    /\ call = GetSchemaCall(Resource, Schema(2))
    /\ ResourceClass \in DOMAIN by_resource
    /\ by_resource[ResourceClass] = Schema(1)
    /\ Resource \in DOMAIN by_type
    /\ outcome = Return(Schema(1))

\* C8: get_schema returns the entry of the first lookup that has one, in the
\* order schema_by_resource[type(obj)], schema_by_resource[obj],
\* schema_by_type[obj], and takes the default / KeyError path only when none
\* of the three has an entry.
C8_FirstHitWins ==
    call.op = "get_schema" =>
        IF NoEntry(call.obj)
        THEN outcome \in {Return(call.default), Raise("KeyError")}
        ELSE outcome = Return(FirstEntry(call.obj))

C8_Witness ==
    /\ call.op = "get_schema"
    /\ Type(call.obj) \in DOMAIN by_resource
    /\ call.obj \in DOMAIN by_resource
    /\ by_resource[Type(call.obj)] # by_resource[call.obj]
    /\ call.default \notin {by_resource[Type(call.obj)], by_resource[call.obj]}
    /\ outcome = Return(by_resource[Type(call.obj)])

-----------------------------------------------------------------------------
(* Properties of Registry.ensure_identifier *)

\* the identifier built from type t and id i, as returned under asdict
Identifier(t, i, asdict) ==
    IF asdict THEN PyDict((KeyType :> t) @@ (KeyId :> i)) ELSE ResourceID(t, i)

\* C3: a two-element sequence (t, i) and a mapping with 'type' = t and
\* 'id' = i both give ResourceID(str(t), str(i)), and under asdict a mapping
\* with exactly the keys 'type' and 'id' and those two strings.
C3_BothFormsNormalised ==
    call.op = "ensure_identifier" =>
        /\ (IsSequence(call.obj) /\ Len(Elements(call.obj)) = 2) =>
              outcome = Return(Identifier(Str(Elements(call.obj)[1]),
                                          Str(Elements(call.obj)[2]), call.asdict))
        /\ (IsMapping(call.obj) /\ {KeyType, KeyId} \subseteq DOMAIN call.obj.map) =>
              outcome = Return(Identifier(Str(call.obj.map[KeyType]),
                                          Str(call.obj.map[KeyId]), call.asdict))

C3_Witness ==
    /\ call.op = "ensure_identifier"
    /\ call.asdict
    /\ IsMapping(call.obj)
    /\ DOMAIN call.obj.map = {KeyType, KeyId, KeyMeta}
    /\ call.obj.map[KeyType] = PyInt(42)
    /\ outcome.kind = "return"
    /\ DOMAIN outcome.value.map = {KeyType, KeyId}
    /\ outcome.value.map[KeyType] = PyStr(<<"4", "2">>)

\* C4: a sequence whose length is not 2 (a string included) and a mapping
\* without a 'type' or an 'id' key make ensure_identifier raise, whatever
\* asdict is.
C4_MalformedIsRejected ==
    (/\ call.op = "ensure_identifier"
     /\ \/ IsSequence(call.obj) /\ Len(Elements(call.obj)) # 2
        \/ IsMapping(call.obj) /\ ~({KeyType, KeyId} \subseteq DOMAIN call.obj.map))
        => outcome.kind = "raise"

C4_Witness ==
    /\ call = EnsureIdentifierCall(PyStr(<<"a", "b", "c">>), TRUE)
    /\ outcome = Raise("AssertionError")

\* C5: for a resource object (neither a sequence nor a mapping)
\* ensure_identifier returns the identifier (S.type, S._get_id(obj)) of the
\* schema S that get_schema finds, as a ResourceID or, under asdict, as its
\* dict, and raises KeyError when no schema is registered for the object.
C5_ObjectIdentifier ==
    (call.op = "ensure_identifier" /\ ~IsSequence(call.obj) /\ ~IsMapping(call.obj)) =>
        IF NoEntry(call.obj)
        THEN outcome = Raise("KeyError")
        ELSE outcome = Return(Identifier(SchemaType(FirstEntry(call.obj)),
                                         SchemaGetId(FirstEntry(call.obj), call.obj),
                                         call.asdict))

C5_Witness ==
    /\ call = EnsureIdentifierCall(Resource, FALSE)
    /\ ~NoEntry(Resource)
    /\ outcome = Return(ResourceID(SchemaType(Schema(2)), SchemaGetId(Schema(2), Resource)))

-----------------------------------------------------------------------------
(* Properties of the fields *)

\* the object {numerator: n, denominator: d}
FractionObject(n, d) == PyDict((KeyNumerator :> PyInt(n)) @@ (KeyDenominator :> PyInt(d)))

\* C6: Fraction.deserialize returns the fraction n/d for every object
\* {numerator: n, denominator: d} that pre_validate accepts, and gives back
\* every fraction f from serialize(f).
C6_FractionRoundTrip ==
    (call.op = "deserialize" /\ field.cls = "Fraction") =>
        /\ \A n, d \in -MaxNumber..MaxNumber :
              (/\ call.obj = FractionObject(n, d)
               /\ pre_validate(field, call.obj).kind = "return")
                 => outcome = MakeFraction(n, d)
        /\ \A f \in Fractions :
              call.obj = serialize(field, f).value => outcome = Return(f)

\* C7: no call changes the configuration of the field or the dictionaries
\* of the registry, whether it returns or raises, and a call repeated with
\* the same arguments has the same outcome.
C7_Stateless ==
    [][/\ registry' = registry
       /\ field' = field
       /\ (call' = call => outcome' = outcome)]_vars

C7_Witness ==
    /\ call.op = "deserialize"
    /\ outcome = Raise("NameError")
    /\ field = ListField(PlainString, PyInt(1), PyInt(2), TRUE)
    /\ registry = EmptyRegistry

====
